---- MODULE Spec2Model ----
(***************************************************************************)
(* Model of src/main.cpp: the script parser (parse, parse_param), the      *)
(* preload pass, the command dispatch table and the execution loop of      *)
(* main.                                                                   *)
(*                                                                         *)
(* A std::string is a sequence of one-character strings, so that the       *)
(* splitting, the quote stripping and the numeric conversions are computed *)
(* character by character as the library routines compute them.            *)
(*                                                                         *)
(* A step that throws an exception nobody catches, or whose undefined      *)
(* behaviour faults, takes the process to pc = "aborted". The fatal        *)
(* start-up paths (no ./script, SDL_Init or SDL_CreateWindow failing) are  *)
(* not modelled: the program is taken from a script that was read.         *)
(***************************************************************************)
EXTENDS Integers, Sequences, FiniteSets, TLC

(***************************************************************************)
(* Bounds of the model.                                                    *)
(***************************************************************************)
\* a script text given to parse alone has at most MaxLines newline-separated
\* fragments
MaxLines == 3
\* a script the whole program is run on has at most MaxCommands lines
MaxCommands == 2
\* loop iterations followed before only a quit request is still taken
MaxTicks == 4

(***************************************************************************)
(* Characters and the library routines used by the program.                *)
(***************************************************************************)
NEWLINE == "\n"
TAB == "\t"
QUOTE == "\""

DigitVal ==
  [c \in {"0", "1", "2", "3", "4", "5", "6", "7", "8", "9"} |->
     CASE c = "0" -> 0 [] c = "1" -> 1 [] c = "2" -> 2 [] c = "3" -> 3
       [] c = "4" -> 4 [] c = "5" -> 5 [] c = "6" -> 6 [] c = "7" -> 7
       [] c = "8" -> 8 [] c = "9" -> 9]

IsDigit(c) == c \in DOMAIN DigitVal

\* isspace in the "C" locale
IsSpace(c) == c \in {" ", "\t", "\n", "\r", "\f"}

\* the largest int: std::stoi throws std::out_of_range beyond it
INT_MAX == 2147483647

\* largest and smallest decimal exponent of a normal double: outside them
\* strtod reports ERANGE and std::stod throws std::out_of_range
DBL_MAX_10_EXP == 308
DBL_MIN_10_EXP == -307

\* boost::split(result, s, boost::is_any_of(d)) with the default
\* token_compress_off: the n occurrences of d cut s into n+1 fragments,
\* empty ones included
split(s, d) ==
  LET at == {i \in 1..Len(s) : s[i] = d}
      n == Cardinality(at)
      \* position of the k-th delimiter; 0 and Len(s)+1 stand for the ends
      cut(k) == IF k = 0 THEN 0
                ELSE IF k = n + 1 THEN Len(s) + 1
                ELSE CHOOSE i \in at : Cardinality({j \in at : j < i}) = k - 1
  IN  [k \in 1..(n + 1) |-> SubSeq(s, cut(k - 1) + 1, cut(k) - 1)]

\* first index >= i of s that is not white space (Len(s)+1 when there is none)
RECURSIVE SkipSpace(_, _)
SkipSpace(s, i) ==
  IF i <= Len(s) /\ IsSpace(s[i]) THEN SkipSpace(s, i + 1) ELSE i

\* first index >= i of s that is not a digit
RECURSIVE SkipDigits(_, _)
SkipDigits(s, i) ==
  IF i <= Len(s) /\ IsDigit(s[i]) THEN SkipDigits(s, i + 1) ELSE i

\* index after an optional sign at i
SkipSign(s, i) == IF i <= Len(s) /\ s[i] \in {"+", "-"} THEN i + 1 ELSE i

\* value of the digits s[i..j-1], or -1 as soon as it exceeds Cap
RECURSIVE DigitsValue(_, _, _, _, _)
DigitsValue(s, i, j, acc, Cap) ==
  IF i >= j THEN acc
  ELSE IF acc > (Cap - DigitVal[s[i]]) \div 10 THEN -1
  ELSE DigitsValue(s, i + 1, j, acc * 10 + DigitVal[s[i]], Cap)

\* std::stoi(str): strtol in base 10 on the longest prefix that is white
\* space, an optional sign and digits. Characters after the digits are
\* ignored. No digit: std::invalid_argument. Out of int: std::out_of_range
\* (the one magnitude beyond INT_MAX that fits is that of INT_MIN).
stoi(s) ==
  LET b == SkipSpace(s, 1)
      d == SkipSign(s, b)
      e == SkipDigits(s, d)
      neg == d > b /\ s[b] = "-"
      mag == DigitsValue(s, d, e, 0, INT_MAX)
      isMin == /\ neg /\ mag = -1 /\ s[e - 1] = "8"
               /\ DigitsValue(s, d, e - 1, 0, INT_MAX) = INT_MAX \div 10
  IN  IF e = d THEN [ok |-> FALSE, error |-> "invalid_argument", value |-> 0]
      ELSE IF isMin THEN [ok |-> TRUE, error |-> "", value |-> -INT_MAX - 1]
      ELSE IF mag = -1 THEN [ok |-> FALSE, error |-> "out_of_range", value |-> 0]
      ELSE [ok |-> TRUE, error |-> "", value |-> IF neg THEN -mag ELSE mag]

\* lower case of the letters strtod compares without regard to case
ToLower(c) ==
  CASE c = "I" -> "i" [] c = "N" -> "n" [] c = "F" -> "f" [] c = "A" -> "a"
    [] c = "E" -> "e" [] OTHER -> c

\* s has the (lower-case) word w at index i, compared without regard to case
HasWordAt(s, i, w) ==
  /\ i + Len(w) - 1 <= Len(s)
  /\ \A k \in 1..Len(w) : ToLower(s[i + k - 1]) = w[k]

\* index of the first non-zero digit of s in i..j-1 skipping the point, as a
\* count of digits from i (0 when all digits are zero)
RECURSIVE FirstNonZero(_, _, _, _)
FirstNonZero(s, i, j, n) ==
  IF i >= j THEN 0
  ELSE IF s[i] = "." THEN FirstNonZero(s, i + 1, j, n)
  ELSE IF s[i] # "0" THEN n + 1
  ELSE FirstNonZero(s, i + 1, j, n + 1)

\* std::stod(str): strtod on the longest prefix that is a floating-point
\* literal (white space, sign, then "inf", "nan" or decimal digits with an
\* optional point and exponent; a hexadecimal literal starts with the decimal
\* digit 0, so it converts too). Characters after the literal are ignored.
\* No literal: std::invalid_argument. ERANGE: std::out_of_range. The range
\* test looks at the decimal order of magnitude of the literal: literals
\* whose magnitude lies in the last decade of the double range are taken as
\* in range.
stod(s) ==
  LET b == SkipSpace(s, 1)
      d == SkipSign(s, b)
      i == SkipDigits(s, d)
      f == IF i <= Len(s) /\ s[i] = "." THEN SkipDigits(s, i + 1) ELSE i
      ndigits == (i - d) + (IF f > i THEN f - i - 1 ELSE 0)
      hasExp == /\ f <= Len(s) /\ ToLower(s[f]) = "e"
                /\ SkipDigits(s, SkipSign(s, f + 1)) > SkipSign(s, f + 1)
      xs == SkipSign(s, f + 1)
      xe == SkipDigits(s, xs)
      xval == IF hasExp THEN DigitsValue(s, xs, xe, 0, INT_MAX \div 2) ELSE 0
      xmag == IF xval = -1 THEN INT_MAX \div 2 ELSE xval
      exp == IF hasExp /\ s[f + 1] = "-" THEN -xmag ELSE xmag
      nz == FirstNonZero(s, d, f, 0)
      \* the literal lies in [10^order, 10^(order+1))
      order == (i - d) - nz + exp
  IN  IF HasWordAt(s, d, <<"i", "n", "f">>) \/ HasWordAt(s, d, <<"n", "a", "n">>)
        THEN [ok |-> TRUE, error |-> ""]
      ELSE IF ndigits = 0 THEN [ok |-> FALSE, error |-> "invalid_argument"]
      ELSE IF nz # 0 /\ (order > DBL_MAX_10_EXP \/ order < DBL_MIN_10_EXP - 1)
        THEN [ok |-> FALSE, error |-> "out_of_range"]
      ELSE [ok |-> TRUE, error |-> ""]

\* std::string::substr(pos, n) for pos <= size(): the characters
\* pos .. min(pos + n, size()) - 1, counted from 0; n is a size_t, so
\* size() - 2 wraps to a huge count when size() < 2
substr(s, pos, n) ==
  LET cnt == IF n < 0 THEN Len(s) ELSE n
      last == IF pos + cnt < Len(s) THEN pos + cnt ELSE Len(s)
  IN  SubSeq(s, pos + 1, last)

(***************************************************************************)
(* Types of the program.                                                   *)
(***************************************************************************)
\* enum CommandName
CommandName ==
  {"LABEL", "IMAGE", "CLEAR", "TEXT", "GOTO", "SET", "INPUT", "IF", "RETURN"}

\* the command names of the script language, as the characters of the text
kw_label == <<"l", "a", "b", "e", "l">>
kw_image == <<"i", "m", "a", "g", "e">>
kw_clear == <<"c", "l", "e", "a", "r">>
kw_text == <<"t", "e", "x", "t">>
kw_goto == <<"g", "o", "t", "o">>
kw_set == <<"s", "e", "t">>
kw_input == <<"i", "n", "p", "u", "t">>
kw_if == <<"i", "f">>
kw_return == <<"r", "e", "t", "u", "r", "n">>

\* const std::map<std::string, CommandName> COMMAND_MAP
COMMAND_MAP ==
  (kw_label :> "LABEL") @@ (kw_image :> "IMAGE") @@ (kw_clear :> "CLEAR")
  @@ (kw_text :> "TEXT") @@ (kw_goto :> "GOTO") @@ (kw_set :> "SET")
  @@ (kw_input :> "INPUT") @@ (kw_if :> "IF") @@ (kw_return :> "RETURN")

\* the initializer of COMMAND_FN_MAP: it has no entry for CLEAR
COMMAND_FN_MAP_INIT ==
  [k \in {"LABEL", "IMAGE", "TEXT", "GOTO", "SET", "INPUT", "IF", "RETURN"} |->
     "command_nop"]

\* a Parameter is the pair <<TypeName, Value>>, a Command the pair
\* <<CommandName, parameters>>
TypeOf(param) == param[1]
ValueOf(param) == param[2]
NameOf(cmd) == cmd[1]
ParamsOf(cmd) == cmd[2]

\* in place of a Parameter: the call did not return, the process was stopped
ABORT == <<"ABORT", <<>> >>

(***************************************************************************)
(* parse_param                                                             *)
(***************************************************************************)
\* The outcomes of parse_param(source). std::stod decides NUMBER; both of
\* its exceptions are caught. For the empty string, source.front() is
\* undefined behaviour: a build either reads the terminator (which is no
\* quote, so the token is a SYMBOL) or stops on the library's assertion.
parse_param(source) ==
  IF stod(source).ok THEN {<<"NUMBER", source>>}
  ELSE IF source = <<>> THEN {<<"SYMBOL", source>>, ABORT}
  ELSE IF source[1] = QUOTE /\ source[Len(source)] = QUOTE
    THEN {<<"STRING", substr(source, 1, Len(source) - 2)>>}
  ELSE {<<"SYMBOL", source>>}

\* the parameter lists the loop over tokens[2..] can build when no call of
\* parse_param stops the process
RECURSIVE ParamLists(_, _)
ParamLists(tokens, i) ==
  IF i > Len(tokens) THEN {<<>>}
  ELSE {<<p>> \o rest : p \in parse_param(tokens[i]) \ {ABORT},
                        rest \in ParamLists(tokens, i + 1)}

(***************************************************************************)
(* The inputs: script texts and the files next to the script.              *)
(***************************************************************************)
RECURSIVE Join(_, _)
Join(parts, d) ==
  IF Len(parts) = 0 THEN <<>>
  ELSE IF Len(parts) = 1 THEN parts[1]
  ELSE parts[1] \o <<d>> \o Join(Tail(parts), d)

t_portrait == <<"p", "o", "r", "t", "r", "a", "i", "t">>
t_char_png == <<"c", "h", "a", "r", ".", "p", "n", "g">>
t_bg_png == <<"b", "g", ".", "p", "n", "g">>
Quoted(s) == <<QUOTE>> \o s \o <<QUOTE>>

L_blank == <<>>
L_label == Join(<<kw_label, <<"s">> >>, TAB)
L_clear == Join(<<kw_clear>>, TAB)
\* the example of the documentation, and the same identifier placed elsewhere
L_portrait ==
  Join(<<kw_image, t_portrait, Quoted(t_char_png),
         <<"1", "0">>, <<"2", "0">>, <<"1", "0", "0">>, <<"1", "5", "0">> >>, TAB)
L_portrait2 ==
  Join(<<kw_image, t_portrait, Quoted(t_char_png),
         <<"5">>, <<"6">>, <<"7">>, <<"8">> >>, TAB)
L_bg ==
  Join(<<kw_image, <<"b", "g">>, Quoted(t_bg_png),
         <<"0">>, <<"0">>, <<"8", "0", "0">>, <<"6", "0", "0">> >>, TAB)
\* malformed parameter lists: too few parameters, a rectangle that is no
\* number, no path, a path that is not quoted
L_short == Join(<<kw_image, t_portrait, Quoted(t_char_png)>>, TAB)
L_badrect ==
  Join(<<kw_image, t_portrait, Quoted(t_char_png),
         <<"1", "0">>, <<"2", "0">>, <<"1", "0", "0">>, <<"w">> >>, TAB)
\* a rectangle parameter that is a floating-point literal without an integer
\* part
L_fraction ==
  Join(<<kw_image, t_portrait, Quoted(t_char_png),
         <<".", "5">>, <<"2", "0">>, <<"1", "0", "0">>, <<"1", "5", "0">> >>, TAB)
L_noarg == Join(<<kw_image, t_portrait>>, TAB)
L_sympath ==
  Join(<<kw_image, <<"b", "g">>, t_char_png, <<"1">>, <<"2">>, <<"3">>, <<"4">> >>, TAB)
\* lines that exercise the parser: unknown names, an empty token, the three
\* parameter types
L_bogus == Join(<<<<"b", "o", "g", "u", "s">>, <<"f", "o", "o">> >>, TAB)
L_Image == Join(<<<<"I", "m", "a", "g", "e">>, t_portrait>>, TAB)
L_tab == <<TAB>>
L_emptytoken == Join(<<kw_text, <<>> >>, TAB)
L_text ==
  Join(<<kw_text, Quoted(<<"h", "i">>), <<"3", ".", "1", "4">>, <<"f", "o", "o">> >>, TAB)
L_prefix == Join(<<kw_text, <<"1", "2", "a", "b", "c">>, <<".", "5">> >>, TAB)

\* the lines of the scripts the program is run on
RunLines ==
  {L_blank, L_label, L_clear, L_portrait, L_portrait2, L_bg, L_short, L_badrect,
   L_noarg, L_sympath, L_bogus, L_emptytoken, L_fraction}

\* the lines of the texts parse is applied to
ParseLines ==
  {L_blank, L_label, L_clear, L_portrait, L_noarg, L_bogus, L_Image, L_tab,
   L_emptytoken, L_text, L_prefix}

\* texts of 1..n lines of L joined by newlines (an empty last line is a
\* trailing newline)
Texts(L, n) == UNION {{Join(ls, NEWLINE) : ls \in [1..m -> L]} : m \in 1..n}

RunScripts == Texts(RunLines, MaxCommands)
ParseScripts == Texts(ParseLines, MaxLines)

\* the image files a script can name, and what the file system holds for
\* each: nothing, a file that decodes, or a file that does not decode
Paths == {t_char_png, t_bg_png}
FileSystems ==
  { (t_char_png :> "image") @@ (t_bg_png :> "image"),
    (t_char_png :> "image") @@ (t_bg_png :> "missing"),
    (t_char_png :> "corrupt") @@ (t_bg_png :> "missing") }

(***************************************************************************)
(* State of the program.                                                   *)
(***************************************************************************)
VARIABLES
  source,          \* the text of ./script
  files,           \* the file system: path -> "image", "corrupt" or "missing"
  pc,              \* position of main: "start", "parse", "preload", "poll",
                   \* "clear", "exec", "draw", "present", "release", "done",
                   \* or "aborted" when the process was stopped
  lines,           \* parse: the lines of source
  line_index,      \* parse: the line the for loop is at (from 1)
  result,          \* parse: the commands pushed so far
  classified,      \* the tokens parse_param has been called with, in order
  commands,        \* main: the parsed commands
  COMMAND_FN_MAP,  \* CommandName -> registered function
  preload_index,   \* main: the command the preload loop is at (from 1)
  state,           \* EngineState: textures, draw_images
  load_calls,      \* the paths IMG_LoadTexture has been called with, in order
  command_index,   \* main: index of the next command to execute (from 0)
  status,          \* what the last dispatched function returned (-1: none yet)
  executed,        \* the commands dispatched so far, in order
  ticks,           \* loop iterations that went past the quit poll
  frame,           \* what SDL_RenderCopy drew since the last SDL_RenderClear
  presented,       \* the frame last shown by SDL_RenderPresent
  destroy_calls    \* texture handle -> number of SDL_DestroyTexture calls

vars ==
  <<source, files, pc, lines, line_index, result, classified, commands,
    COMMAND_FN_MAP, preload_index, state, load_calls, command_index, status, executed, ticks,
    frame, presented, destroy_calls>>

parseVars == <<lines, line_index, result, classified>>
loopVars == <<command_index, status, executed, ticks, frame, presented>>

\* SDL_Texture* handles: the k-th call of IMG_LoadTexture returns handle k,
\* or NULL when the file does not decode
NULL == 0

Start ==
  /\ pc = "start"
  /\ lines = <<>>
  /\ line_index = 1
  /\ result = <<>>
  /\ classified = <<>>
  /\ commands = <<>>
  /\ COMMAND_FN_MAP = COMMAND_FN_MAP_INIT
  /\ preload_index = 1
  /\ state = [textures |-> <<>>, draw_images |-> <<>>]
  /\ load_calls = <<>>
  /\ command_index = 0
  /\ status = -1
  /\ executed = <<>>
  /\ ticks = 0
  /\ frame = {}
  /\ presented = {}
  /\ destroy_calls = <<>>

\* the program is started on a script, next to some image files
Init == source \in RunScripts /\ files \in FileSystems /\ Start

\* parse alone is applied to a text
InitParse == source \in ParseScripts /\ files = [p \in Paths |-> "missing"] /\ Start

(***************************************************************************)
(* parse: one action per way an iteration of the loop over lines can go.   *)
(***************************************************************************)
\* boost::split(tokens, line, is_any_of("\t"))
Tokens(line) == split(line, TAB)

\* main reads ./script and calls parse, which splits the text into lines:
\* boost::split(lines, source, is_any_of("\n"))
ParseBegin ==
  /\ pc = "start"
  /\ lines' = split(source, NEWLINE)
  /\ pc' = "parse"
  /\ UNCHANGED <<source, files, line_index, result, classified, commands,
                 COMMAND_FN_MAP, preload_index, state, load_calls, destroy_calls>>
  /\ UNCHANGED loopVars

AtLine == pc = "parse" /\ line_index <= Len(lines)

\* if (line == "") continue;
ParseBlank ==
  /\ AtLine
  /\ lines[line_index] = <<>>
  /\ line_index' = line_index + 1
  /\ UNCHANGED <<source, files, pc, lines, result, classified, commands,
                 COMMAND_FN_MAP, preload_index, state, load_calls, destroy_calls>>
  /\ UNCHANGED loopVars

\* ParseInvalid without its continue: the line falls through to the
\* classification of its tokens and a Command is pushed for it
ParseInvalid_NoContinue ==
  /\ AtLine
  /\ lines[line_index] # <<>>
  /\ LET tokens == Tokens(lines[line_index])
     IN  /\ tokens[1] \notin DOMAIN COMMAND_MAP
         /\ \E parameters \in ParamLists(tokens, 2) :
              result' = Append(result, <<"LABEL", parameters>>)
         /\ classified' = classified \o Tail(tokens)
  /\ line_index' = line_index + 1
  /\ UNCHANGED <<source, files, pc, lines, commands, COMMAND_FN_MAP,
                 preload_index, state, load_calls, destroy_calls>>
  /\ UNCHANGED loopVars

\* the first token is no key of COMMAND_MAP: diagnostic, continue
ParseInvalid ==
  /\ AtLine
  /\ lines[line_index] # <<>>
  /\ Tokens(lines[line_index])[1] \notin DOMAIN COMMAND_MAP
  /\ line_index' = line_index + 1
  /\ UNCHANGED <<source, files, pc, lines, result, classified, commands,
                 COMMAND_FN_MAP, preload_index, state, load_calls, destroy_calls>>
  /\ UNCHANGED loopVars

\* the first token names a command: every other token is classified and the
\* Command is pushed
ParseCommand ==
  /\ AtLine
  /\ lines[line_index] # <<>>
  /\ LET tokens == Tokens(lines[line_index])
     IN  /\ tokens[1] \in DOMAIN COMMAND_MAP
         /\ \E parameters \in ParamLists(tokens, 2) :
              result' = Append(result, <<COMMAND_MAP[tokens[1]], parameters>>)
         /\ classified' = classified \o Tail(tokens)
  /\ line_index' = line_index + 1
  /\ UNCHANGED <<source, files, pc, lines, commands, COMMAND_FN_MAP,
                 preload_index, state, load_calls, destroy_calls>>
  /\ UNCHANGED loopVars

\* a call of parse_param on the line stops the process
ParseAbort ==
  /\ AtLine
  /\ lines[line_index] # <<>>
  /\ LET tokens == Tokens(lines[line_index])
     IN  /\ tokens[1] \in DOMAIN COMMAND_MAP
         /\ \E i \in 2..Len(tokens) :
              /\ ABORT \in parse_param(tokens[i])
              /\ ParamLists(SubSeq(tokens, 1, i - 1), 2) # {}
              /\ classified' = classified \o SubSeq(tokens, 2, i)
  /\ pc' = "aborted"
  /\ UNCHANGED <<source, files, lines, line_index, result, commands,
                 COMMAND_FN_MAP, preload_index, state, load_calls, destroy_calls>>
  /\ UNCHANGED loopVars

\* return result; main prints the commands, registers command_image for
\* IMAGE and sets up the window and the renderer
ParseReturn ==
  /\ pc = "parse"
  /\ line_index > Len(lines)
  /\ commands' = result
  /\ COMMAND_FN_MAP' = ("IMAGE" :> "command_image") @@ COMMAND_FN_MAP
  /\ pc' = "preload"
  /\ UNCHANGED <<source, files, preload_index, state, load_calls, destroy_calls>>
  /\ UNCHANGED parseVars
  /\ UNCHANGED loopVars

(***************************************************************************)
(* The preload pass of main: one action per iteration over commands.       *)
(***************************************************************************)
\* exists_file(name): the file can be opened
exists_file(name) == name \in DOMAIN files /\ files[name] # "missing"

\* the conditions under which the preload loop loads the file of a command
PreloadWanted(cmd) ==
  /\ NameOf(cmd) = "IMAGE"
  /\ Len(ParamsOf(cmd)) >= 2
  /\ TypeOf(ParamsOf(cmd)[2]) = "STRING"
  /\ exists_file(ValueOf(ParamsOf(cmd)[2]))

\* IMG_LoadTexture as the n-th call: a new handle, or NULL
IMG_LoadTexture(path, n) == IF files[path] = "image" THEN n ELSE NULL

\* the handles IMG_LoadTexture has created
Created == {k \in 1..Len(load_calls) : IMG_LoadTexture(load_calls[k], k) # NULL}

AtPreload == pc = "preload" /\ preload_index <= Len(commands)

\* not an IMAGE command, or one of the three "continue" branches
PreloadSkip ==
  /\ AtPreload
  /\ ~PreloadWanted(commands[preload_index])
  /\ preload_index' = preload_index + 1
  /\ UNCHANGED <<source, files, pc, commands, COMMAND_FN_MAP, state, load_calls,
                 destroy_calls>>
  /\ UNCHANGED parseVars
  /\ UNCHANGED loopVars

\* state.textures[image_path] = IMG_LoadTexture(renderer, image_path)
PreloadLoad ==
  /\ AtPreload
  /\ PreloadWanted(commands[preload_index])
  /\ LET image_path == ValueOf(ParamsOf(commands[preload_index])[2])
         tex == IMG_LoadTexture(image_path, Len(load_calls) + 1)
     IN  /\ load_calls' = Append(load_calls, image_path)
         /\ state' = [state EXCEPT !.textures = (image_path :> tex) @@ @]
  /\ preload_index' = preload_index + 1
  /\ UNCHANGED <<source, files, pc, commands, COMMAND_FN_MAP, destroy_calls>>
  /\ UNCHANGED parseVars
  /\ UNCHANGED loopVars

\* the loop is over: "Textures are cached.", the main loop is entered
PreloadDone ==
  /\ pc = "preload"
  /\ preload_index > Len(commands)
  /\ pc' = "poll"
  /\ UNCHANGED <<source, files, commands, COMMAND_FN_MAP, preload_index, state,
                 load_calls, destroy_calls>>
  /\ UNCHANGED parseVars
  /\ UNCHANGED loopVars

(***************************************************************************)
(* Command functions and dispatch.                                         *)
(***************************************************************************)
\* outcomes of a command function: it returns ret and leaves the engine
\* state st, or the process is stopped (an exception nobody catches, or
\* undefined behaviour that faults)
Returns(ret, st) == [kind |-> "return", ret |-> ret, state |-> st]
Aborts(st) == [kind |-> "abort", ret |-> -1, state |-> st]

\* int command_nop(...) { return 0; }
command_nop(st, params) == {Returns(0, st)}

\* what a read of a std::string beyond the end of params can yield when it
\* does not fault: an empty string or stray digits
GarbageValues == {<<>>, <<"7">>}

\* std::get<1>(params[k - 1]): params[] is not bounds-checked
ValuesAt(params, k) ==
  IF k <= Len(params) THEN {ValueOf(params[k])} ELSE GarbageValues

\* the values the four reads of params[2..5] can yield
Rects(params) ==
  {v \in [3..6 -> UNION {ValuesAt(params, k) : k \in 3..6}] :
     \A k \in 3..6 : v[k] \in ValuesAt(params, k)}

\* Place with imgst.tex left as ImageState was constructed
Place_NoTexture(st, key, tex, v) ==
  IF \A k \in 3..6 : stoi(v[k]).ok
  THEN Returns(0,
         [st EXCEPT !.draw_images =
            (key :> [tex |-> NULL,
                     rect |-> [x |-> stoi(v[3]).value, y |-> stoi(v[4]).value,
                               w |-> stoi(v[5]).value, h |-> stoi(v[6]).value]])
            @@ @])
  ELSE Aborts(st)

\* Place with state.draw_images replaced by the one new placement
Place_DropsOthers(st, key, tex, v) ==
  IF \A k \in 3..6 : stoi(v[k]).ok
  THEN Returns(0,
         [st EXCEPT !.draw_images =
            (key :> [tex |-> tex,
                     rect |-> [x |-> stoi(v[3]).value, y |-> stoi(v[4]).value,
                               w |-> stoi(v[5]).value, h |-> stoi(v[6]).value]])])
  ELSE Aborts(st)

\* rect.x .. rect.h = std::stoi(...); state.draw_images[key] = imgst;
\* return 0. A std::stoi that throws ends the call before the assignment.
Place(st, key, tex, v) ==
  IF \A k \in 3..6 : stoi(v[k]).ok
  THEN Returns(0,
         [st EXCEPT !.draw_images =
            (key :> [tex |-> tex,
                     rect |-> [x |-> stoi(v[3]).value, y |-> stoi(v[4]).value,
                               w |-> stoi(v[5]).value, h |-> stoi(v[6]).value]])
            @@ @])
  ELSE Aborts(st)

\* the second half of command_image, reached when the texture was found
PlaceImage(st, params, key, tex) ==
  {Place(st, key, tex, v) : v \in Rects(params)}
  \cup (IF Len(params) < 6 THEN {Aborts(st)} ELSE {})

\* command_image with state.textures[img_path] in place of find and at:
\* operator[] inserts a null texture for a path that is not loaded
command_image_unchecked(st, params) ==
  UNION {LET st2 == [st EXCEPT !.textures =
                       IF img_path \in DOMAIN @ THEN @ ELSE (img_path :> 0) @@ @]
         IN  PlaceImage(st2, params, id, st2.textures[img_path]) :
           id \in ValuesAt(params, 1), img_path \in ValuesAt(params, 2)}
  \cup (IF Len(params) < 2 THEN {Aborts(st)} ELSE {})

\* command_image with the placement stored under the path
command_image_keyed_by_path(st, params) ==
  UNION {IF img_path \notin DOMAIN st.textures THEN {Returns(1, st)}
         ELSE PlaceImage(st, params, img_path, st.textures[img_path]) :
           id \in ValuesAt(params, 1), img_path \in ValuesAt(params, 2)}
  \cup (IF Len(params) < 2 THEN {Aborts(st)} ELSE {})

\* int command_image(renderer, state, params)
command_image(st, params) ==
  UNION {IF img_path \notin DOMAIN st.textures THEN {Returns(1, st)}
         ELSE PlaceImage(st, params, id, st.textures[img_path]) :
           id \in ValuesAt(params, 1), img_path \in ValuesAt(params, 2)}
  \cup (IF Len(params) < 2 THEN {Aborts(st)} ELSE {})

\* COMMAND_FN_MAP[command_name]: operator[] inserts an empty std::function
\* for a key the map does not hold
Lookup(fn_map, command_name) ==
  IF command_name \in DOMAIN fn_map THEN fn_map
  ELSE (command_name :> "empty") @@ fn_map

\* COMMAND_FN_MAP[command_name](renderer, state, params): calling an empty
\* std::function throws std::bad_function_call
Dispatch(fn_map, st, cmd) ==
  LET fn == Lookup(fn_map, NameOf(cmd))[NameOf(cmd)]
  IN  CASE fn = "command_nop" -> command_nop(st, ParamsOf(cmd))
        [] fn = "command_image" -> command_image(st, ParamsOf(cmd))
        [] fn = "empty" -> {Aborts(st)}

(***************************************************************************)
(* The main loop: one action per step of an iteration.                     *)
(***************************************************************************)
\* SDL_PollEvent gives SDL_QUIT: break
PollQuit ==
  /\ pc = "poll"
  /\ pc' = "release"
  /\ UNCHANGED <<source, files, commands, COMMAND_FN_MAP, preload_index, state,
                 load_calls, destroy_calls>>
  /\ UNCHANGED parseVars
  /\ UNCHANGED loopVars

\* no event, or another event: the iteration goes on
PollContinue ==
  /\ pc = "poll"
  /\ ticks < MaxTicks
  /\ ticks' = ticks + 1
  /\ pc' = "clear"
  /\ UNCHANGED <<source, files, commands, COMMAND_FN_MAP, preload_index, state,
                 load_calls, destroy_calls>>
  /\ UNCHANGED parseVars
  /\ UNCHANGED <<command_index, status, executed, frame, presented>>

\* SDL_RenderClear(renderer)
Clear ==
  /\ pc = "clear"
  /\ frame' = {}
  /\ pc' = "exec"
  /\ UNCHANGED <<source, files, commands, COMMAND_FN_MAP, preload_index, state,
                 load_calls, destroy_calls>>
  /\ UNCHANGED parseVars
  /\ UNCHANGED <<command_index, status, executed, ticks, presented>>

\* ExecuteCommand placed after the drawing step of the iteration
ExecuteCommand_AfterDraw ==
  /\ pc = "exec"
  /\ command_index < Len(commands)
  /\ LET cmd == commands[command_index + 1]
     IN  /\ \E out \in Dispatch(COMMAND_FN_MAP, state, cmd) :
               /\ out.kind = "return"
               /\ status' = out.ret
               /\ state' = out.state
         /\ COMMAND_FN_MAP' = Lookup(COMMAND_FN_MAP, NameOf(cmd))
         /\ executed' = Append(executed, cmd)
  /\ command_index' = command_index + 1
  /\ pc' = "present"
  /\ UNCHANGED <<source, files, commands, preload_index, load_calls, destroy_calls>>
  /\ UNCHANGED parseVars
  /\ UNCHANGED <<ticks, frame, presented>>

\* ExecuteCommand without command_index += 1
ExecuteCommand_NoIncrement ==
  /\ pc = "exec"
  /\ command_index < Len(commands)
  /\ LET cmd == commands[command_index + 1]
     IN  /\ \E out \in Dispatch(COMMAND_FN_MAP, state, cmd) :
               /\ out.kind = "return"
               /\ status' = out.ret
               /\ state' = out.state
         /\ COMMAND_FN_MAP' = Lookup(COMMAND_FN_MAP, NameOf(cmd))
         /\ executed' = Append(executed, cmd)
  /\ pc' = "draw"
  /\ UNCHANGED <<source, files, commands, preload_index, load_calls, destroy_calls>>
  /\ UNCHANGED parseVars
  /\ UNCHANGED <<command_index, ticks, frame, presented>>

\* command_index < commands.size(): the command is dispatched, it returns,
\* and command_index += 1
ExecuteCommand ==
  /\ pc = "exec"
  /\ command_index < Len(commands)
  /\ LET cmd == commands[command_index + 1]
     IN  /\ \E out \in Dispatch(COMMAND_FN_MAP, state, cmd) :
               /\ out.kind = "return"
               /\ status' = out.ret
               /\ state' = out.state
         /\ COMMAND_FN_MAP' = Lookup(COMMAND_FN_MAP, NameOf(cmd))
         /\ executed' = Append(executed, cmd)
  /\ command_index' = command_index + 1
  /\ pc' = "draw"
  /\ UNCHANGED <<source, files, commands, preload_index, load_calls, destroy_calls>>
  /\ UNCHANGED parseVars
  /\ UNCHANGED <<ticks, frame, presented>>

\* command_index < commands.size(): the command is dispatched and the call
\* stops the process
ExecuteAbort ==
  /\ pc = "exec"
  /\ command_index < Len(commands)
  /\ LET cmd == commands[command_index + 1]
     IN  /\ \E out \in Dispatch(COMMAND_FN_MAP, state, cmd) :
               /\ out.kind = "abort"
               /\ state' = out.state
         /\ COMMAND_FN_MAP' = Lookup(COMMAND_FN_MAP, NameOf(cmd))
         /\ executed' = Append(executed, cmd)
  /\ pc' = "aborted"
  /\ UNCHANGED <<source, files, commands, preload_index, load_calls, destroy_calls>>
  /\ UNCHANGED parseVars
  /\ UNCHANGED <<command_index, status, ticks, frame, presented>>

\* ExecuteNothing with a break when the script is drained
ExecuteNothing_EndsLoop ==
  /\ pc = "exec"
  /\ command_index >= Len(commands)
  /\ pc' = "release"
  /\ UNCHANGED <<source, files, commands, COMMAND_FN_MAP, preload_index, state,
                 load_calls, destroy_calls>>
  /\ UNCHANGED parseVars
  /\ UNCHANGED loopVars

\* command_index == commands.size(): nothing is executed
ExecuteNothing ==
  /\ pc = "exec"
  /\ command_index >= Len(commands)
  /\ pc' = "draw"
  /\ UNCHANGED <<source, files, commands, COMMAND_FN_MAP, preload_index, state,
                 load_calls, destroy_calls>>
  /\ UNCHANGED parseVars
  /\ UNCHANGED loopVars

\* SDL_RenderCopy for every entry of state.draw_images
Draw ==
  /\ pc = "draw"
  /\ frame' = {state.draw_images[id] : id \in DOMAIN state.draw_images}
  /\ pc' = "present"
  /\ UNCHANGED <<source, files, commands, COMMAND_FN_MAP, preload_index, state,
                 load_calls, destroy_calls>>
  /\ UNCHANGED parseVars
  /\ UNCHANGED <<command_index, status, executed, ticks, presented>>

\* SDL_RenderPresent(renderer); SDL_Delay(13)
Present ==
  /\ pc = "present"
  /\ presented' = frame
  /\ pc' = "poll"
  /\ UNCHANGED <<source, files, commands, COMMAND_FN_MAP, preload_index, state,
                 load_calls, destroy_calls>>
  /\ UNCHANGED parseVars
  /\ UNCHANGED <<command_index, status, executed, ticks, frame>>

\* after the loop: SDL_DestroyTexture for every entry of state.textures,
\* then the renderer and the window are destroyed and main returns 0
Release ==
  /\ pc = "release"
  /\ destroy_calls' =
       [h \in {state.textures[p] : p \in DOMAIN state.textures} |->
          Cardinality({p \in DOMAIN state.textures : state.textures[p] = h})]
  /\ pc' = "done"
  /\ UNCHANGED <<source, files, commands, COMMAND_FN_MAP, preload_index, state,
                 load_calls>>
  /\ UNCHANGED parseVars
  /\ UNCHANGED loopVars

\* parse alone
NextParse ==
  ParseBegin \/ ParseBlank \/ ParseInvalid \/ ParseCommand \/ ParseAbort \/ ParseReturn

Next ==
  \/ ParseBegin \/ ParseBlank \/ ParseInvalid \/ ParseCommand \/ ParseAbort \/ ParseReturn
  \/ PreloadSkip \/ PreloadLoad \/ PreloadDone
  \/ PollQuit \/ PollContinue \/ Clear
  \/ ExecuteCommand \/ ExecuteAbort \/ ExecuteNothing
  \/ Draw \/ Present \/ Release

Spec == Init /\ [][Next]_vars

SpecParse == InitParse /\ [][NextParse]_vars

(***************************************************************************)
(* Vocabulary of the properties.                                           *)
(***************************************************************************)
LoopPcs == {"poll", "clear", "exec", "draw", "present"}
Last(seq) == seq[Len(seq)]

\* the loop is at the execution step with a command left to execute
Executing == pc = "exec" /\ command_index < Len(commands)
\* that command
Current == commands[command_index + 1]

\* an IMAGE command whose parameter list is malformed: fewer than 6
\* parameters, or a rectangle parameter that is no NUMBER or that std::stoi
\* does not convert
Malformed(cmd) ==
  /\ NameOf(cmd) = "IMAGE"
  /\ \/ Len(ParamsOf(cmd)) < 6
     \/ \E k \in 3..6 : \/ TypeOf(ParamsOf(cmd)[k]) # "NUMBER"
                        \/ ~stoi(ValueOf(ParamsOf(cmd)[k])).ok

\* an IMAGE command with its 6 parameters, a path that is loaded and a
\* rectangle of integers
WellFormed(cmd) ==
  /\ NameOf(cmd) = "IMAGE"
  /\ Len(ParamsOf(cmd)) >= 6
  /\ ValueOf(ParamsOf(cmd)[2]) \in DOMAIN state.textures
  /\ \A k \in 3..6 : stoi(ValueOf(ParamsOf(cmd)[k])).ok

\* every placement, as Draw hands it to SDL_RenderCopy
Placements == {state.draw_images[id] : id \in DOMAIN state.draw_images}

(***************************************************************************)
(* C1. For a script of N commands the loop executes at most one command    *)
(* per tick, after N ticks that reached the execution step command_index   *)
(* is N, and every later tick executes nothing and draws every placement.  *)
(* Stated as the claim has it; the code stops the process in the tick of a *)
(* CLEAR command or of an IMAGE command whose conversion throws.           *)
(***************************************************************************)
C1_DrainedAfterNTicks ==
  /\ Len(executed) <= ticks
  /\ (ticks >= Len(commands) /\ pc \notin {"clear", "exec"})
       => command_index = Len(commands)
  /\ (ticks > Len(commands) /\ pc = "present")
       => (Len(executed) = Len(commands) /\ frame = Placements)

(***************************************************************************)
(* C2. Executing an IMAGE command with a malformed parameter list leaves   *)
(* the engine state unchanged, increments command_index and goes on to the *)
(* drawing step of the tick. Stated as the claim has it.                   *)
(***************************************************************************)
C2_MalformedImageIsSkipped ==
  [][(Executing /\ Malformed(Current))
       => (state' = state /\ command_index' = command_index + 1 /\ pc' = "draw")]_vars

(***************************************************************************)
(* C3. Every command kind has a function registered when it is dispatched, *)
(* and dispatching a kind other than IMAGE returns 0, leaves the engine    *)
(* state unchanged and goes on with the tick. Stated as the claim has it.  *)
(***************************************************************************)
C3_EveryKindIsANop ==
  [][(Executing /\ NameOf(Current) # "IMAGE")
       => /\ NameOf(Current) \in DOMAIN COMMAND_FN_MAP
          /\ status' = 0
          /\ state' = state
          /\ command_index' = command_index + 1
          /\ pc' = "draw"]_vars

(***************************************************************************)
(* C4. Executing an IMAGE command whose path (the value of its second      *)
(* parameter) is no key of state.textures returns non-zero and leaves      *)
(* textures and draw_images as they were.                                  *)
(***************************************************************************)
C4_MissingResourceFails ==
  [][(/\ Executing
      /\ NameOf(Current) = "IMAGE"
      /\ Len(ParamsOf(Current)) >= 2
      /\ ValueOf(ParamsOf(Current)[2]) \notin DOMAIN state.textures)
       => /\ pc' = "draw"
          /\ status' \notin {0, -1}
          /\ state'.textures = state.textures
          /\ state'.draw_images = state.draw_images]_vars

\* an IMAGE command naming a path that was not loaded has just returned 1
C4_Witness ==
  /\ pc = "draw"
  /\ executed # <<>>
  /\ NameOf(Last(executed)) = "IMAGE"
  /\ Len(ParamsOf(Last(executed))) >= 2
  /\ ValueOf(ParamsOf(Last(executed))[2]) \notin DOMAIN state.textures
  /\ status = 1
  /\ state.draw_images # <<>>

(***************************************************************************)
(* C5. A successful IMAGE command with identifier I, loaded path P and     *)
(* rectangle (x, y, w, h) leaves one placement keyed I that refers to      *)
(* state.textures[P] with that rectangle, and changes no other placement:  *)
(* when I is already placed the placement is replaced and their number     *)
(* stays the same. The rectangle of the documented example                 *)
(* image portrait "char.png" 10 20 100 150 is (10, 20, 100, 150).          *)
(***************************************************************************)
C5_PlacementInsertedOrReplaced ==
  [][(Executing /\ WellFormed(Current))
       => LET params == ParamsOf(Current)
              I == ValueOf(params[1])
              P == ValueOf(params[2])
              old == DOMAIN state.draw_images
          IN  /\ pc' = "draw"
              /\ status' = 0
              /\ state'.textures = state.textures
              /\ DOMAIN state'.draw_images = old \cup {I}
              /\ Cardinality(DOMAIN state'.draw_images) =
                   Cardinality(old) + (IF I \in old THEN 0 ELSE 1)
              /\ state'.draw_images[I].tex = state.textures[P]
              /\ state'.draw_images[I].rect =
                   [x |-> stoi(ValueOf(params[3])).value,
                    y |-> stoi(ValueOf(params[4])).value,
                    w |-> stoi(ValueOf(params[5])).value,
                    h |-> stoi(ValueOf(params[6])).value]
              /\ \A id \in old \ {I} : state'.draw_images[id] = state.draw_images[id]
              /\ (Current = <<"IMAGE", <<<<"SYMBOL", t_portrait>>,
                                         <<"STRING", t_char_png>>,
                                         <<"NUMBER", <<"1", "0">> >>,
                                         <<"NUMBER", <<"2", "0">> >>,
                                         <<"NUMBER", <<"1", "0", "0">> >>,
                                         <<"NUMBER", <<"1", "5", "0">> >> >> >>)
                   => state'.draw_images[t_portrait].rect =
                        [x |-> 10, y |-> 20, w |-> 100, h |-> 150]]_vars

\* the documented example was executed, then a second IMAGE command with the
\* same identifier and another rectangle: one placement, the second rectangle
C5_Witness ==
  /\ pc = "draw"
  /\ Len(executed) = 2
  /\ status = 0
  /\ Len(ParamsOf(executed[1])) = 6
  /\ Len(ParamsOf(executed[2])) = 6
  /\ ValueOf(ParamsOf(executed[1])[3]) = <<"1", "0">>
  /\ ValueOf(ParamsOf(executed[1])[1]) = ValueOf(ParamsOf(executed[2])[1])
  /\ DOMAIN state.draw_images = {t_portrait}
  /\ state.draw_images[t_portrait] =
       [tex |-> state.textures[t_char_png],
        rect |-> [x |-> 5, y |-> 6, w |-> 7, h |-> 8]]

(***************************************************************************)
(* C6. The preload pass calls IMG_LoadTexture at most once for a path,     *)
(* however many IMAGE commands name it. Stated as the claim has it.        *)
(***************************************************************************)
C6_EachPathLoadedOnce ==
  \A i, j \in 1..Len(load_calls) : load_calls[i] = load_calls[j] => i = j

(***************************************************************************)
(* C7. When main has returned, every texture the preload pass created was  *)
(* passed to SDL_DestroyTexture exactly once. Stated as the claim has it.  *)
(***************************************************************************)
C7_EveryTextureReleasedOnce ==
  pc = "done" =>
    \A h \in Created : h \in DOMAIN destroy_calls /\ destroy_calls[h] = 1

(***************************************************************************)
(* C8. Control leaves the loop for the code after it only from the quit    *)
(* poll; and once command_index equals the number of commands it keeps     *)
(* that value and the loop goes on, tick after tick, until the poll        *)
(* leaves it.                                                              *)
(***************************************************************************)
C8_OnlyQuitEndsTheLoop ==
  [][/\ (pc \in LoopPcs /\ pc' \notin LoopPcs /\ command_index = Len(commands))
          => (pc = "poll" /\ pc' = "release")
     /\ (pc \in LoopPcs /\ pc' = "release") => pc = "poll"
     /\ (pc \in LoopPcs /\ command_index = Len(commands))
          => command_index' = Len(commands)
     /\ (pc = "present" /\ command_index = Len(commands)) => pc' = "poll"]_vars

\* a tick that executed nothing has ended with the script drained and the
\* loop is at the poll of the next tick
C8_Witness ==
  /\ pc = "poll"
  /\ Len(commands) >= 1
  /\ command_index = Len(commands)
  /\ ticks > Len(commands) + 1

(***************************************************************************)
(* Vocabulary of the properties of parse.                                  *)
(***************************************************************************)
IsBlank(line) == line = <<>>
\* the first token of the line is one of the nine command names
IsKnownLine(line) == ~IsBlank(line) /\ Tokens(line)[1] \in DOMAIN COMMAND_MAP
IsUnknownLine(line) == ~IsBlank(line) /\ Tokens(line)[1] \notin DOMAIN COMMAND_MAP
\* tab-separated tokens of a line, counted on the text
TokenCount(line) == 1 + Cardinality({i \in 1..Len(line) : line[i] = TAB})

\* the lines before line_index have been gone through
LinesDone == SubSeq(lines, 1, line_index - 1)

\* the parameter tokens of the lines ls, in order
RECURSIVE ParamTokens(_)
ParamTokens(ls) ==
  IF ls = <<>> THEN <<>> ELSE Tail(Tokens(Head(ls))) \o ParamTokens(Tail(ls))

\* cmds has one Command for each line of ls, in order: the kind named by the
\* first token, and one parameter for each other token
CommandsOf(cmds, ls) ==
  /\ Len(cmds) = Len(ls)
  /\ \A k \in 1..Len(ls) :
       /\ NameOf(cmds[k]) = COMMAND_MAP[Tokens(ls[k])[1]]
       /\ Len(ParamsOf(cmds[k])) = TokenCount(ls[k]) - 1
       /\ \A j \in 1..Len(ParamsOf(cmds[k])) :
            ParamsOf(cmds[k])[j] \in parse_param(Tokens(ls[k])[j + 1])

(***************************************************************************)
(* C9. For a script whose non-blank lines all start with a command name,   *)
(* parse returns, and what it returns has one Command for each non-blank   *)
(* line, in order, with as many parameters as the line has tokens after    *)
(* the first; blank lines give nothing. Stated as the claim has it.        *)
(***************************************************************************)
C9_OneCommandPerNonBlankLine ==
  (pc # "start" /\ \A i \in 1..Len(lines) : IsBlank(lines[i]) \/ IsKnownLine(lines[i]))
    => /\ pc # "aborted"
       /\ pc = "preload" => CommandsOf(commands, SelectSeq(lines, IsKnownLine))

\* what holds of the code: the same, for scripts no line of which has an
\* empty token after the first
NoEmptyParameterToken ==
  \A i \in 1..Len(lines) :
    \A j \in 2..Len(Tokens(lines[i])) : Tokens(lines[i])[j] # <<>>

ParseOneCommandPerNonBlankLine ==
  (/\ pc # "start"
   /\ NoEmptyParameterToken
   /\ \A i \in 1..Len(lines) : IsBlank(lines[i]) \/ IsKnownLine(lines[i]))
    => /\ pc # "aborted"
       /\ pc = "preload" => CommandsOf(commands, SelectSeq(lines, IsKnownLine))

(***************************************************************************)
(* C10. A line whose first token is not, character for character, one of   *)
(* the nine command names adds no Command, none of its tokens is handed to *)
(* parse_param, and the loop goes on with the next line; at every point of *)
(* the parse the result is exactly the Commands of the known lines gone    *)
(* through, in their order, and the classified tokens are those of these   *)
(* lines alone.                                                            *)
(***************************************************************************)
C10_UnknownLineIsSkipped ==
  /\ [][(AtLine /\ IsUnknownLine(lines[line_index]))
          => /\ pc' = "parse"
             /\ line_index' = line_index + 1
             /\ result' = result
             /\ classified' = classified]_vars
  /\ [](pc \in {"parse", "preload", "aborted"}
          => CommandsOf(result, SelectSeq(LinesDone, IsKnownLine)))
  /\ [](pc \in {"parse", "preload"}
          => classified = ParamTokens(SelectSeq(LinesDone, IsKnownLine)))
  /\ [](pc = "preload" => commands = result /\ line_index = Len(lines) + 1)

\* parse has returned two Commands for a text of three lines whose second
\* line starts with Image, a name that differs from image by case only
C10_Witness ==
  /\ pc = "preload"
  /\ Len(lines) = 3
  /\ IsKnownLine(lines[1])
  /\ IsUnknownLine(lines[2])
  /\ Tokens(lines[2])[1] = <<"I", "m", "a", "g", "e">>
  /\ Len(Tokens(lines[2])) = 2
  /\ IsKnownLine(lines[3])
  /\ Len(commands) = 2
  /\ NameOf(commands[1]) = "TEXT"
  /\ NameOf(commands[2]) = "IMAGE"
  /\ Len(classified) = 3 + 6

(***************************************************************************)
(* C11. parse_param is total: for every token handed to it, the empty      *)
(* token of a trailing tab or of two adjacent tabs included, it returns    *)
(* one Parameter tagged NUMBER, STRING or SYMBOL, and the empty token is   *)
(* a SYMBOL with the empty value; no call stops the parse. Stated as the   *)
(* claim has it.                                                           *)
(***************************************************************************)
C11_ClassificationIsTotal ==
  /\ \A i \in 1..Len(classified) :
       LET out == parse_param(classified[i])
       IN  /\ Cardinality(out) = 1
           /\ \A p \in out : TypeOf(p) \in {"NUMBER", "STRING", "SYMBOL"}
           /\ classified[i] = <<>> => out = {<<"SYMBOL", <<>> >>}
  /\ ~(pc = "aborted" /\ ticks = 0)

(***************************************************************************)
(* C12. An IMAGE command whose reference the preload pass skipped (no      *)
(* second parameter, a second parameter that is no STRING, or a file that  *)
(* does not exist) fails when it is executed: it returns non-zero for the  *)
(* missing resource, adds no placement and the tick goes on. Stated as the *)
(* claim has it.                                                           *)
(***************************************************************************)
C12_SkippedReferenceFailsAtDispatch ==
  [][(Executing /\ NameOf(Current) = "IMAGE" /\ ~PreloadWanted(Current))
       => /\ pc' = "draw"
          /\ status' \notin {0, -1}
          /\ state'.draw_images = state.draw_images]_vars

\* the parameters of the commands cmds, in order
RECURSIVE FlatParams(_)
FlatParams(cmds) ==
  IF cmds = <<>> THEN <<>> ELSE ParamsOf(Head(cmds)) \o FlatParams(Tail(cmds))

\* the index after the floating-point literal s starts with (0 when s starts
\* with none): a sign, then inf, infinity, nan or decimal digits with an
\* optional point and an optional exponent
FloatLiteralEnd(s) ==
  LET d == SkipSign(s, 1)
      i == SkipDigits(s, d)
      f == IF i <= Len(s) /\ s[i] = "." THEN SkipDigits(s, i + 1) ELSE i
      ndigits == (i - d) + (IF f > i THEN f - i - 1 ELSE 0)
      xs == SkipSign(s, f + 1)
      xe == SkipDigits(s, xs)
  IN  IF HasWordAt(s, d, <<"i", "n", "f", "i", "n", "i", "t", "y">>) THEN d + 8
      ELSE IF HasWordAt(s, d, <<"i", "n", "f">>) THEN d + 3
      ELSE IF HasWordAt(s, d, <<"n", "a", "n">>) THEN d + 3
      ELSE IF ndigits = 0 THEN 0
      ELSE IF f <= Len(s) /\ ToLower(s[f]) = "e" /\ xe > xs THEN xe
      ELSE f

\* the whole of s is one floating-point literal
IsFloatLiteral(s) == FloatLiteralEnd(s) = Len(s) + 1

(***************************************************************************)
(* C13. parse_param tags a token NUMBER exactly when the whole token is a  *)
(* floating-point literal (a token that starts with a numeric prefix and   *)
(* goes on with other characters is no NUMBER), and the value of a NUMBER  *)
(* is the text of the token, unchanged. Stated as the claim has it.        *)
(***************************************************************************)
C13_NumberIffWholeTokenIsLiteral ==
  pc \in {"parse", "preload"} =>
    LET ps == FlatParams(result)
    IN  /\ Len(ps) = Len(classified)
        /\ \A i \in 1..Len(ps) :
             /\ TypeOf(ps[i]) = "NUMBER" <=> IsFloatLiteral(classified[i])
             /\ TypeOf(ps[i]) = "NUMBER" => ValueOf(ps[i]) = classified[i]

\* what holds of the code, for tokens whose literal is in the range of a
\* double: NUMBER exactly when the token starts with a literal, and the value
\* is the text of the token
NumberIffLiteralPrefix ==
  pc \in {"parse", "preload"} =>
    LET ps == FlatParams(result)
    IN  /\ Len(ps) = Len(classified)
        /\ \A i \in 1..Len(ps) :
             /\ TypeOf(ps[i]) = "NUMBER" <=> FloatLiteralEnd(classified[i]) > 0
             /\ TypeOf(ps[i]) = "NUMBER" => ValueOf(ps[i]) = classified[i]

(***************************************************************************)
(* C14. The commands are executed in the order of the script, without a    *)
(* skip, a repeat or a jump: command_index is 0 until the loop starts,     *)
(* goes up by one with each command that returns and never goes down,      *)
(* stays within 0..N for the N commands parse returned, the k-th command   *)
(* handed to dispatch is the k-th of them, and when command_index is N     *)
(* each of them was executed once.                                         *)
(***************************************************************************)
C14_CommandsExecutedInOrder ==
  /\ [](command_index \in 0..Len(commands))
  /\ [](pc \in {"start", "parse", "preload"} => (command_index = 0 /\ executed = <<>>))
  /\ [](/\ Len(executed) <= Len(commands)
        /\ \A k \in 1..Len(executed) : executed[k] = commands[k])
  /\ [](pc # "aborted" => Len(executed) = command_index)
  /\ []((pc # "aborted" /\ command_index = Len(commands)) => executed = commands)
  /\ [][/\ command_index' \in {command_index, command_index + 1}
        /\ executed' # executed
             => (Executing /\ executed' = Append(executed, Current))
        /\ command_index' # command_index => executed' # executed]_vars

\* two different commands were executed, the first then the second
C14_Witness ==
  /\ pc = "draw"
  /\ Len(commands) = 2
  /\ commands[1] # commands[2]
  /\ command_index = 2
  /\ executed = commands

\* the steps of one iteration of the loop, in the order of the code
TickOrder ==
  {<<"poll", "clear">>, <<"poll", "release">>, <<"clear", "exec">>,
   <<"exec", "draw">>, <<"exec", "aborted">>, <<"draw", "present">>,
   <<"present", "poll">>}

(***************************************************************************)
(* C15. A tick goes through its steps in the order poll, clear, execute    *)
(* at most one command, draw every placement, present and pace: what is    *)
(* presented holds every placement, the one the command of this tick       *)
(* created included; and the tick whose poll finds the quit event executes *)
(* no command and draws nothing.                                           *)
(***************************************************************************)
C15_TickOrder ==
  /\ [][(pc \in LoopPcs /\ pc' # pc) => <<pc, pc'>> \in TickOrder]_vars
  /\ [][/\ executed' # executed => (pc = "exec" /\ Len(executed') = Len(executed) + 1)
        /\ frame' # frame => pc \in {"clear", "draw"}
        /\ presented' # presented => pc = "present"
        /\ state'.draw_images # state.draw_images => pc = "exec"]_vars
  /\ [](Len(executed) <= ticks)
  /\ [](pc = "present" => frame = Placements)
  /\ [][pc = "present" => presented' = Placements]_vars
  /\ [][(pc = "poll" /\ pc' = "release")
          => /\ executed' = executed
             /\ command_index' = command_index
             /\ state' = state
             /\ frame' = frame
             /\ presented' = presented]_vars

\* the first tick executed an IMAGE command and presented its placement; the
\* poll of the second tick found the quit event, with a command left
C15_Witness ==
  /\ pc = "release"
  /\ ticks = 1
  /\ Len(commands) = 2
  /\ Len(executed) = 1
  /\ NameOf(executed[1]) = "IMAGE"
  /\ status = 0
  /\ Placements # {}
  /\ presented = Placements

(***************************************************************************)
(* C16. Placements stay until they are overwritten: a step of the program  *)
(* removes no placement, and the only placement it adds or changes is the  *)
(* one keyed by the identifier (first parameter) of the IMAGE command the  *)
(* tick executes; every other placement is left as it was.                 *)
(***************************************************************************)
C16_PlacementsPersist ==
  [][LET old == state.draw_images
         new == state'.draw_images
         changed == {id \in DOMAIN new : id \notin DOMAIN old \/ new[id] # old[id]}
     IN  /\ DOMAIN old \subseteq DOMAIN new
         /\ Cardinality(changed) <= 1
         /\ changed # {}
              => /\ Executing
                 /\ NameOf(Current) = "IMAGE"
                 /\ Len(ParamsOf(Current)) >= 1
                 /\ changed = {ValueOf(ParamsOf(Current)[1])}]_vars

\* a second IMAGE command with another identifier was executed and the
\* placement of the first is still there
C16_Witness ==
  /\ pc = "present"
  /\ Len(executed) = 2
  /\ status = 0
  /\ DOMAIN state.draw_images = {t_portrait, <<"b", "g">>}
  /\ frame = Placements

(***************************************************************************)
(* C17. Textures are created in the preload pass only and destroyed at     *)
(* shutdown only: state.textures changes and IMG_LoadTexture is called in  *)
(* the preload pass alone, SDL_DestroyTexture is called after the loop     *)
(* alone, and from the first poll to the exit of the loop no step, the     *)
(* execution of a command included, adds, removes or replaces an entry of  *)
(* state.textures.                                                         *)
(***************************************************************************)
C17_TexturesFixedDuringLoop ==
  [][/\ state'.textures # state.textures => pc = "preload"
     /\ load_calls' # load_calls => pc = "preload"
     /\ destroy_calls' # destroy_calls => pc = "release"
     /\ pc \in LoopPcs
          => /\ state'.textures = state.textures
             /\ load_calls' = load_calls
             /\ destroy_calls' = destroy_calls]_vars

\* the loop was left after an IMAGE command that placed a loaded texture and
\* one that named a path that is not loaded: the textures are those of the
\* preload pass
C17_Witness ==
  /\ pc = "release"
  /\ Len(executed) = 2
  /\ status = 1
  /\ state.draw_images # <<>>
  /\ load_calls = <<t_char_png>>
  /\ DOMAIN state.textures = {t_char_png}
  /\ destroy_calls = <<>>

(***************************************************************************)
(* C18. An IMAGE command with exactly 6 parameters, a path that is loaded  *)
(* and x, y, width and height all tagged NUMBER returns 0 and leaves its   *)
(* placement, and the tick goes on; no token parse_param tags NUMBER makes *)
(* std::stoi fail. Stated as the claim has it.                             *)
(***************************************************************************)
C18_NumberRectangleSucceeds ==
  /\ [][(/\ Executing
         /\ NameOf(Current) = "IMAGE"
         /\ Len(ParamsOf(Current)) = 6
         /\ ValueOf(ParamsOf(Current)[2]) \in DOMAIN state.textures
         /\ \A k \in 3..6 : TypeOf(ParamsOf(Current)[k]) = "NUMBER")
          => /\ pc' = "draw"
             /\ status' = 0
             /\ command_index' = command_index + 1
             /\ ValueOf(ParamsOf(Current)[1]) \in DOMAIN state'.draw_images]_vars
  /\ [](\A c \in 1..Len(commands) :
          \A k \in 1..Len(ParamsOf(commands[c])) :
            TypeOf(ParamsOf(commands[c])[k]) = "NUMBER"
              => stoi(ValueOf(ParamsOf(commands[c])[k])).ok)

\* the IMAGE commands handed to dispatch so far that name the identifier id
\* and a path that is loaded
CreatorsOf(id) ==
  {k \in 1..Len(executed) :
     /\ NameOf(executed[k]) = "IMAGE"
     /\ Len(ParamsOf(executed[k])) >= 2
     /\ ValueOf(ParamsOf(executed[k])[1]) = id
     /\ ValueOf(ParamsOf(executed[k])[2]) \in DOMAIN state.textures}

(***************************************************************************)
(* C19. Until the textures are destroyed after the loop, the texture of    *)
(* every placement, and of everything drawn, is a value state.textures     *)
(* holds: the one stored under the path of an IMAGE command that placed    *)
(* it, and at the step that writes a placement the one stored under the    *)
(* path of the command executed; no texture is destroyed before the loop   *)
(* is left.                                                                *)
(***************************************************************************)
C19_PlacementsReferenceHeldTextures ==
  /\ [](\A id \in DOMAIN state.draw_images :
          \E k \in CreatorsOf(id) :
            state.draw_images[id].tex =
              state.textures[ValueOf(ParamsOf(executed[k])[2])])
  /\ [](\A img \in frame \cup presented :
          \E path \in DOMAIN state.textures : img.tex = state.textures[path])
  /\ [](pc # "done" => destroy_calls = <<>>)
  /\ [][\A id \in DOMAIN state'.draw_images :
          (id \notin DOMAIN state.draw_images
             \/ state'.draw_images[id] # state.draw_images[id])
            => /\ Executing
               /\ Len(ParamsOf(Current)) >= 2
               /\ ValueOf(ParamsOf(Current)[2]) \in DOMAIN state'.textures
               /\ state'.draw_images[id].tex =
                    state'.textures[ValueOf(ParamsOf(Current)[2])]]_vars

\* two placements of two loaded images were drawn and presented, each with
\* the texture stored under its path
C19_Witness ==
  /\ pc = "poll"
  /\ ticks = 2
  /\ DOMAIN state.draw_images = {t_portrait, <<"b", "g">>}
  /\ DOMAIN state.textures = {t_char_png, t_bg_png}
  /\ state.draw_images[t_portrait].tex = state.textures[t_char_png]
  /\ state.draw_images[<<"b", "g">>].tex = state.textures[t_bg_png]
  /\ state.textures[t_char_png] # NULL
  /\ state.textures[t_bg_png] # state.textures[t_char_png]
  /\ presented = Placements

====
